---- MODULE Spec2Model ----
(***************************************************************************)
(* Model of utils/viewer_utils.py: the two projection-matrix constructors  *)
(* and the OrbitCamera (state, persistence, orbit / pan / zoom).           *)
(*                                                                         *)
(* Numbers.  Python floats are modelled as fixed-point integers: the real  *)
(* x is the integer x * Unit.  Rotations (scipy Rotation) are quaternions   *)
(* <<x, y, z, w>> (scalar last, as scipy stores them) with integer          *)
(* components, kept up to a positive factor and up to sign; the orbit       *)
(* inputs are multiples of 300, i.e. turns by multiples of 90 degrees, so   *)
(* every rotation matrix entry is -1, 0 or 1 and all divisions by the       *)
(* quaternion norm are exact.                                               *)
(* Matrices and vectors are tuples; index i of the source is index i+1.     *)
(***************************************************************************)
EXTENDS Integers, Sequences, FiniteSets, TLC

VARIABLES cam, file, op, err, saved, call, steps

vars == <<cam, file, op, err, saved, call, steps>>

\* ---------------------------------------------------------------- bounds
\* fixed-point resolution: the real 1.0
Unit == 1000
\* number of calls the host makes in one run
MaxSteps == 5
\* largest batch size N handed to projection_from_intrinsics
MaxBatch == 2

\* ----------------------------------------------------------- arithmetic
Abs(x) == IF x < 0 THEN -x ELSE x

RECURSIVE Gcd(_, _)
Gcd(a, b) == IF b = 0 THEN a ELSE Gcd(b, a % b)

RECURSIVE Pow(_, _)
Pow(b, n) == IF n = 0 THEN 1 ELSE b * Pow(b, n - 1)

\* math.tan(np.radians(fovy) / 2) as a fixed-point number, for the field
\* of views the model constructs cameras with (tan 45 = 1, tan 30 = 0.577)
TanHalf(fovy) ==
    CASE fovy = 90 -> Unit
      [] fovy = 60 -> (577 * Unit) \div 1000

\* ------------------------------------------------- scipy Rotation (R)
QIdentity == <<0, 0, 0, 1>>

\* q and -q, and q and k*q (k > 0), are the same rotation: one representative
QCanon(q) ==
    LET g == Gcd(Gcd(Abs(q[1]), Abs(q[2])), Gcd(Abs(q[3]), Abs(q[4])))
        r == <<q[1] \div g, q[2] \div g, q[3] \div g, q[4] \div g>>
        neg == \/ r[4] < 0
               \/ r[4] = 0 /\ r[1] < 0
               \/ r[4] = 0 /\ r[1] = 0 /\ r[2] < 0
               \/ r[4] = 0 /\ r[1] = 0 /\ r[2] = 0 /\ r[3] < 0
    IN  IF neg THEN <<-r[1], -r[2], -r[3], -r[4]>> ELSE r

\* Rotation.__mul__: the composition p * q applies q first
QMul(p, q) ==
    QCanon(<< p[4]*q[1] + p[1]*q[4] + p[2]*q[3] - p[3]*q[2],
              p[4]*q[2] - p[1]*q[3] + p[2]*q[4] + p[3]*q[1],
              p[4]*q[3] + p[1]*q[2] - p[2]*q[1] + p[3]*q[4],
              p[4]*q[4] - p[1]*q[1] - p[2]*q[2] - p[3]*q[3] >>)

\* Rotation.as_matrix: the 3x3 matrix of a quaternion, fixed-point entries
as_matrix(q) ==
    LET x == q[1]  y == q[2]  z == q[3]  w == q[4]
        n == x*x + y*y + z*z + w*w
        e(v) == (v * Unit) \div n
    IN  << << e(w*w + x*x - y*y - z*z), e(2*(x*y - z*w)), e(2*(x*z + y*w)) >>,
           << e(2*(x*y + z*w)), e(w*w - x*x + y*y - z*z), e(2*(y*z - x*w)) >>,
           << e(2*(x*z - y*w)), e(2*(y*z + x*w)), e(w*w - x*x - y*y + z*z) >> >>

\* the quaternions of the rotations by multiples of 90 degrees about the axes
RotQuats ==
    { QCanon(q) : q \in { t \in [1..4 -> -1..1] :
                            t[1]*t[1] + t[2]*t[2] + t[3]*t[3] + t[4]*t[4] \in {1, 2, 4} } }

\* Rotation.from_matrix: the rotation whose matrix is m
from_matrix(m) == CHOOSE q \in RotQuats : as_matrix(q) = m

\* Rotation.from_rotvec(axis * np.radians(deg)): axis a fixed-point unit
\* vector, deg a multiple of 90; the quaternion is (axis*sin(t/2), cos(t/2))
from_rotvec(axis, deg) ==
    LET a == <<axis[1] \div Unit, axis[2] \div Unit, axis[3] \div Unit>>
        t == deg % 360
    IN  CASE t = 0   -> QIdentity
          [] t = 90  -> QCanon(<<a[1], a[2], a[3], 1>>)
          [] t = 180 -> QCanon(<<a[1], a[2], a[3], 0>>)
          [] t = 270 -> QCanon(<<-a[1], -a[2], -a[3], 1>>)

\* ------------------------------------------------------ linear algebra
\* m @ v for a 3x3 fixed-point m and a vector v of plain numbers
MatVec3(m, v) == [i \in 1..3 |-> m[i][1]*v[1] + m[i][2]*v[2] + m[i][3]*v[3]]

\* a @ b for 4x4 fixed-point matrices
MatMul4(a, b) ==
    [i \in 1..4 |-> [j \in 1..4 |->
        (a[i][1]*b[1][j] + a[i][2]*b[2][j] + a[i][3]*b[3][j] + a[i][4]*b[4][j]) \div Unit]]

\* np.eye(4)
Eye4 == [i \in 1..4 |-> [j \in 1..4 |-> IF i = j THEN Unit ELSE 0]]

\* np.zeros((4, 4))
Zeros4 == [i \in 1..4 |-> [j \in 1..4 |-> 0]]

\* ------------------------------------------------------- numpy arrays
\* An array is [shape |-> <<d1, ..., dn>>, val |-> [index tuple |-> number]],
\* index tuples 0-based as in the source.
RECURSIVE SeqMax(_)
SeqMax(s) == IF Len(s) = 0 THEN 0
             ELSE LET m == SeqMax(Tail(s)) IN IF Head(s) > m THEN Head(s) ELSE m

Indices(shape) ==
    { t \in [1..Len(shape) -> 0..(SeqMax(shape) - 1)] :
        \A k \in 1..Len(shape) : t[k] < shape[k] }

\* K[..., i, j]
IndexLast2(K, i, j) ==
    LET s == SubSeq(K.shape, 1, Len(K.shape) - 2)
    IN  [shape |-> s, val |-> [t \in Indices(s) |-> K.val[t \o <<i, j>>]]]

\* K[..., [i]]: the list index keeps an axis of length 1
IndexLastList(K, i) ==
    LET s == SubSeq(K.shape, 1, Len(K.shape) - 1) \o <<1>>
    IN  [shape |-> s,
         val   |-> [t \in Indices(s) |-> K.val[SubSeq(t, 1, Len(t) - 1) \o <<i>>]]]

\* elementwise a * 2 / d and (d - 2 * a) / d, for an array a and an integer d
TwiceOver(a, d) == [shape |-> a.shape, val |-> [t \in DOMAIN a.val |-> (a.val[t] * 2) \div d]]

OffCentre(a, d) ==
    [shape |-> a.shape, val |-> [t \in DOMAIN a.val |-> (d * Unit - 2 * a.val[t]) \div d]]

\* numpy drops leading axes of length 1 of a value assigned to fewer axes
RECURSIVE StripOnes(_)
StripOnes(s) == IF Len(s) > 1 /\ s[1] = 1 THEN StripOnes(Tail(s)) ELSE s

\* proj[:, i, j] = v: can v be broadcast into shape (B,) ?
CanAssign(v, B) ==
    LET s == StripOnes(v.shape)
    IN  Len(s) = 0 \/ (Len(s) = 1 /\ s[1] \in {1, B})

\* the number proj[b, i, j] receives from v
Assigned(v, b) ==
    LET n == Len(v.shape)
    IN  IF n = 0 THEN v.val[<<>>]
        ELSE v.val[[k \in 1..n |-> IF k = n /\ v.shape[n] # 1 THEN b ELSE 0]]

\* ------------------------------------------- projection constructors
\* getOrthProjectionMatrix_numpy(znear, zfar, scale); every argument fixed-point
getOrthProjectionMatrix_numpy(znear, zfar, scale) ==
    LET width  == (Unit * Unit) \div scale
        height == (Unit * Unit) \div scale
        top    == height \div 2
        bottom == -top
        right  == width \div 2
        left   == -right
    IN  [Zeros4 EXCEPT
           ![1][1] = (2 * Unit * Unit) \div (right - left),
           ![2][2] = (2 * Unit * Unit) \div (top - bottom),
           ![3][3] = (-2 * Unit * Unit) \div (zfar - znear),
           ![1][4] = (-(right + left) * Unit) \div (right - left),
           ![2][4] = (-(top + bottom) * Unit) \div (top - bottom),
           ![3][4] = (-(zfar + znear) * Unit) \div (zfar - znear),
           ![4][4] = Unit]

\* projection_from_intrinsics(K, image_size, near, far, flip_y, z_sign):
\* K an array of fixed-point numbers, image_size = <<h, w>> integers, near and
\* far fixed-point, K with at least one axis.  The result is [err |-> "ok", shape, mat] with mat[b] the
\* b-th 4x4 matrix, or [err |-> the exception raised].
projection_from_intrinsics(K, image_size, near, far, flip_y, z_sign) ==
    LET B == K.shape[1]
        h == image_size[1]
        w == image_size[2]
        n == Len(K.shape)
        is33 == n >= 2 /\ K.shape[n-1] = 3 /\ K.shape[n] = 3
        is4  == K.shape[n] = 4
    IN  IF ~is33 /\ ~is4 THEN [err |-> "ValueError"]
        ELSE
        LET fx == IF is33 THEN IndexLast2(K, 0, 0) ELSE IndexLastList(K, 0)
            fy == IF is33 THEN IndexLast2(K, 1, 1) ELSE IndexLastList(K, 1)
            cx == IF is33 THEN IndexLast2(K, 0, 2) ELSE IndexLastList(K, 2)
            cy == IF is33 THEN IndexLast2(K, 1, 2) ELSE IndexLastList(K, 3)
            v00 == TwiceOver(fx, w)
            v11 == TwiceOver(fy, h)
            v02 == OffCentre(cx, w)
            v12 == OffCentre(cy, h)
        IN  IF ~CanAssign(v00, B) THEN [err |-> "ValueError"]   \* could not broadcast
            ELSE
            [err   |-> "ok",
             shape |-> <<B, 4, 4>>,
             mat   |-> [b \in 0..(B-1) |->
                 [Zeros4 EXCEPT
                    ![1][1] = Assigned(v00, b),
                    ![2][2] = IF flip_y THEN -Assigned(v11, b) ELSE Assigned(v11, b),
                    ![1][3] = Assigned(v02, b),
                    ![2][3] = Assigned(v12, b),
                    ![3][3] = (z_sign * (far + near) * Unit) \div (far - near),
                    ![3][4] = (-2 * far * near) \div (far - near),
                    ![4][3] = z_sign * Unit]]]

\* ---------------------------------------------------------- OrbitCamera
\* no camera object yet, no file at save_path, Python's None
NoCam == [none |-> "camera"]
NoFile == [none |-> "file"]
None == <<>>

\* __init__, the attributes set before reset(): r, znear, zfar, scale fixed-point
init_attrs(W, H, r, fovy, znear, zfar, scale, convention, projection, save_path) ==
    [image_width    |-> W,
     image_height   |-> H,
     radius_default |-> r,
     fovy_default   |-> fovy,
     znear          |-> znear,
     zfar           |-> zfar,
     scale          |-> scale,
     convention     |-> convention,
     projection     |-> projection,
     save_path      |-> save_path,
     up             |-> <<0, Unit, 0>>]

\* reset() raises ValueError for a convention it does not know
reset_raises(c) == c.convention \notin {"opencv", "opengl"}

\* reset() as it would be if it left the radius as it is
reset_keeps_radius(c) ==
    [rot     |-> QIdentity,
     look_at |-> <<0, 0, 0>>,
     radius  |-> IF "radius" \in DOMAIN c THEN c.radius ELSE c.radius_default,
     fovy    |-> c.fovy_default,
     z_sign  |-> IF c.convention = "opencv" THEN 1 ELSE -1,
     y_sign  |-> IF c.convention = "opencv" THEN 1 ELSE -1] @@ c

\* reset(): the attributes it assigns replace those of c
reset(c) ==
    [rot     |-> QIdentity,
     look_at |-> <<0, 0, 0>>,
     radius  |-> c.radius_default,
     fovy    |-> c.fovy_default,
     z_sign  |-> IF c.convention = "opencv" THEN 1 ELSE -1,
     y_sign  |-> IF c.convention = "opencv" THEN 1 ELSE -1] @@ c

\* save(): the dictionary written to save_path.  tolist(), json.dump and
\* json.load keep every number's value; the rotation is written as its matrix
save(c) ==
    [rotation |-> as_matrix(c.rot),
     look_at  |-> c.look_at,
     radius   |-> c.radius,
     fovy     |-> c.fovy]

\* load() as it would be if it did not restore look_at
load_without_look_at(c, f) ==
    IF f = NoFile THEN c
    ELSE [c EXCEPT !.rot     = from_matrix(f.rotation),
                   !.radius  = f.radius,
                   !.fovy    = f.fovy]

\* load(): f is the content of save_path, NoFile when the path does not exist
load(c, f) ==
    IF f = NoFile THEN c
    ELSE [c EXCEPT !.rot     = from_matrix(f.rotation),
                   !.look_at = f.look_at,
                   !.radius  = f.radius,
                   !.fovy    = f.fovy]

\* OrbitCamera(...): __init__ runs reset() and then load()
OrbitCamera(W, H, r, fovy, znear, zfar, scale, convention, projection, save_path, f) ==
    load(reset(init_attrs(W, H, r, fovy, znear, zfar, scale,
                          convention, projection, save_path)), f)

\* fovx
fovx(c) == (c.fovy * c.image_width) \div c.image_height

\* intrinsics: the array (focal, focal, W // 2, H // 2)
intrinsics(c) ==
    LET focal == (c.image_height * Unit * Unit) \div (2 * TanHalf(c.fovy))
        v == <<focal, focal, (c.image_width \div 2) * Unit, (c.image_height \div 2) * Unit>>
    IN  [shape |-> <<4>>, val |-> [t \in Indices(<<4>>) |-> v[t[1] + 1]]]

\* a[None]: a new leading axis of length 1
NewAxis(a) ==
    [shape |-> <<1>> \o a.shape,
     val   |-> [t \in Indices(<<1>> \o a.shape) |-> a.val[Tail(t)]]]

\* projection_matrix: a 4x4 matrix, or None when neither branch returns
projection_matrix(c) ==
    IF c.projection = "perspective"
    THEN projection_from_intrinsics(NewAxis(intrinsics(c)),
                                    <<c.image_height, c.image_width>>,
                                    c.znear, c.zfar, FALSE, c.z_sign).mat[0]
    ELSE IF c.projection = "orthogonal"
    THEN getOrthProjectionMatrix_numpy(c.znear, c.zfar, c.scale)
    ELSE None

\* pose: camera-to-world 4x4 matrix
pose(c) ==
    LET p0  == [Eye4 EXCEPT ![3][4] = @ + c.radius]
        m   == as_matrix(c.rot)
        rot == [i \in 1..4 |-> [j \in 1..4 |->
                  IF i <= 3 /\ j <= 3 THEN m[i][j] ELSE Eye4[i][j]]]
        p1  == MatMul4(rot, p0)
        p2  == [i \in 1..4 |-> [j \in 1..4 |->
                  IF i <= 3 /\ j = 4 THEN p1[i][j] - c.look_at[i] ELSE p1[i][j]]]
    IN  IF c.convention = "opencv"
        THEN [i \in 1..4 |-> [j \in 1..4 |->
                  IF j \in {2, 3} THEN -p2[i][j] ELSE p2[i][j]]]
        ELSE p2

\* np.radians(-0.3 * d), in degrees
TurnDegrees(d) == (-3 * d) \div 10

\* orbit(dx, dy)
orbit(c, dx, dy) ==
    LET m        == as_matrix(c.rot)
        side     == <<m[1][1], m[2][1], m[3][1]>>
        rotvec_x == from_rotvec(c.up, TurnDegrees(dx))
        rotvec_y == from_rotvec(side, TurnDegrees(dy))
    IN  [c EXCEPT !.rot = QMul(QMul(rotvec_x, rotvec_y), c.rot)]

\* the method scale(delta): radius *= 1.1 ** (-delta)
scale(c, delta) ==
    [c EXCEPT !.radius = IF delta >= 0
                         THEN (@ * Pow(10, delta)) \div Pow(11, delta)
                         ELSE (@ * Pow(11, -delta)) \div Pow(10, -delta)]

\* pan() as it would be if dz also moved the camera along its view axis
pan_with_dolly(c, dx, dy, dz) ==
    LET d == <<dx, -dy, dz>>
        v == MatVec3(as_matrix(c.rot), d)
        step(i) == ((((2 * v[i] * c.radius) \div Unit) \div c.image_height)
                      * TanHalf(c.fovy)) \div Unit
    IN  [c EXCEPT !.look_at = <<@[1] + step(1), @[2] + step(2), @[3] + step(3)>>,
                  !.radius  = @ + dz]

\* pan(dx, dy, dz)
pan(c, dx, dy, dz) ==
    LET d == <<dx, -dy, dz>>
        v == MatVec3(as_matrix(c.rot), d)
        step(i) == ((((2 * v[i] * c.radius) \div Unit) \div c.image_height)
                      * TanHalf(c.fovy)) \div Unit
    IN  [c EXCEPT !.look_at = <<@[1] + step(1), @[2] + step(2), @[3] + step(3)>>]

\* ------------------------------------------------------------- inputs
\* construction parameters tried: <<r, fovy, convention, projection>>
ConstructInputs ==
    { <<2, 60, "opengl", "perspective">>,
      <<3, 90, "opencv", "orthogonal">>,
      <<2, 90, "opencv", "perspective">>,
      <<2, 60, "opengl", "fisheye">>,
      <<3, 90, "vulkan", "perspective">> }
\* pointer deltas handed to orbit (a multiple of 300 is a multiple of 90 degrees)
OrbitInputs == {<<0, 0>>, <<300, 0>>, <<0, 300>>, <<-600, 600>>}
\* deltas handed to pan
PanInputs == {<<300, 0, 0>>, <<0, -150, 0>>, <<0, 0, 300>>}
\* scroll deltas handed to the zoom method
ZoomInputs == {-1, 1}

\* ------------------------------------------------- the camera's program
\* cam:   the camera object the host holds, NoCam before the first one
\* file:  the content of save_path, NoFile while the path does not exist
\* op, err: the last operation called and how it ended ("ok" or the exception)
\* saved: the camera as it was when save() last ran (history)
\* call:  the last call of projection_from_intrinsics and its result
\* steps: the number of calls made so far
NoCall == [none |-> "call"]

Init ==
    /\ cam = NoCam
    /\ file = NoFile
    /\ op = "init"
    /\ err = "ok"
    /\ saved = NoCam
    /\ call = NoCall
    /\ steps = 0

\* one more call, while the run's budget lasts
Step ==
    /\ steps < MaxSteps
    /\ steps' = steps + 1

\* cam = OrbitCamera(800, 600, r, fovy, convention=..., projection=...)
Construct(r, fovy, convention, projection) ==
    /\ op' = "construct"
    /\ Step
    /\ IF reset_raises(init_attrs(800, 600, r * Unit, fovy, Unit \div 100, 10 * Unit,
                                  Unit, convention, projection, "camera.json"))
       THEN /\ err' = "ValueError"
            /\ cam' = cam
       ELSE /\ err' = "ok"
            /\ cam' = OrbitCamera(800, 600, r * Unit, fovy, Unit \div 100, 10 * Unit,
                                  Unit, convention, projection, "camera.json", file)
    /\ UNCHANGED <<file, saved, call>>

\* cam.reset()
Reset ==
    /\ cam # NoCam
    /\ op' = "reset"
    /\ Step
    /\ IF reset_raises(cam)
       THEN err' = "ValueError" /\ cam' = cam
       ELSE err' = "ok" /\ cam' = reset(cam)
    /\ UNCHANGED <<file, saved, call>>

\* cam.save()
Save ==
    /\ cam # NoCam
    /\ op' = "save"
    /\ Step
    /\ err' = "ok"
    /\ file' = save(cam)
    /\ saved' = cam
    /\ UNCHANGED <<cam, call>>

\* clear() as it would be if it also reset the camera
Clear_and_reset ==
    /\ cam # NoCam
    /\ op' = "clear"
    /\ Step
    /\ IF file = NoFile
       THEN err' = "FileNotFoundError" /\ file' = file /\ cam' = cam
       ELSE err' = "ok" /\ file' = NoFile /\ cam' = reset(cam)
    /\ UNCHANGED <<saved, call>>

\* cam.clear(): os.remove raises FileNotFoundError when the path does not exist
Clear ==
    /\ cam # NoCam
    /\ op' = "clear"
    /\ Step
    /\ IF file = NoFile
       THEN err' = "FileNotFoundError" /\ file' = file
       ELSE err' = "ok" /\ file' = NoFile
    /\ UNCHANGED <<cam, saved, call>>

\* cam.load()
Load ==
    /\ cam # NoCam
    /\ op' = "load"
    /\ Step
    /\ err' = "ok"
    /\ cam' = load(cam, file)
    /\ UNCHANGED <<file, saved, call>>

\* cam.orbit(dx, dy)
Orbit(dx, dy) ==
    /\ cam # NoCam
    /\ op' = "orbit"
    /\ Step
    /\ err' = "ok"
    /\ cam' = orbit(cam, dx, dy)
    /\ UNCHANGED <<file, saved, call>>

\* cam.pan(dx, dy, dz)
Pan(dx, dy, dz) ==
    /\ cam # NoCam
    /\ op' = "pan"
    /\ Step
    /\ err' = "ok"
    /\ cam' = pan(cam, dx, dy, dz)
    /\ UNCHANGED <<file, saved, call>>

\* the zoom as it would be if the method were reached and stepped the radius
\* by the delta instead of scaling it
Zoom_linear(delta) ==
    /\ cam # NoCam
    /\ op' = "zoom"
    /\ Step
    /\ err' = "ok"
    /\ cam' = [cam EXCEPT !.radius = @ - delta * Unit]
    /\ UNCHANGED <<file, saved, call>>

\* cam.scale(delta), the zoom.  Attribute lookup finds the instance attribute
\* before the method of the class: __init__ stored the number scale under the
\* same name, and calling a number raises TypeError
Zoom(delta) ==
    /\ cam # NoCam
    /\ op' = "zoom"
    /\ Step
    /\ IF "scale" \in DOMAIN cam
       THEN err' = "TypeError" /\ cam' = cam
       ELSE err' = "ok" /\ cam' = scale(cam, delta)
    /\ UNCHANGED <<file, saved, call>>

Next ==
    \/ \E p \in ConstructInputs : Construct(p[1], p[2], p[3], p[4])
    \/ Reset
    \/ Save
    \/ Clear
    \/ Load
    \/ \E d \in OrbitInputs : Orbit(d[1], d[2])
    \/ \E d \in PanInputs : Pan(d[1], d[2], d[3])
    \/ \E delta \in ZoomInputs : Zoom(delta)

Spec == Init /\ [][Next]_vars

\* ------------------------------------- calls of projection_from_intrinsics
\* intrinsics <<fx, fy, cx, cy>> in pixels
IntrinsicsInputs == { <<520, 520, 400, 300>>, <<450, 300, 200, 150>>, <<600, 640, 100, 250>> }

\* every batch of 1..MaxBatch intrinsics
Batches == UNION { [1..n -> IntrinsicsInputs] : n \in 1..MaxBatch }

\* the batch as an (N, 3, 3) array of matrices [[fx, 0, cx], [0, fy, cy], [0, 0, 1]]
AsMatrices(batch) ==
    [shape |-> <<Len(batch), 3, 3>>,
     val   |-> [t \in Indices(<<Len(batch), 3, 3>>) |->
        LET k == batch[t[1] + 1]
        IN  CASE t[2] = 0 /\ t[3] = 0 -> k[1] * Unit
              [] t[2] = 1 /\ t[3] = 1 -> k[2] * Unit
              [] t[2] = 0 /\ t[3] = 2 -> k[3] * Unit
              [] t[2] = 1 /\ t[3] = 2 -> k[4] * Unit
              [] t[2] = 2 /\ t[3] = 2 -> Unit
              [] OTHER -> 0]]

\* the batch as an (N, 4) array of vectors (fx, fy, cx, cy)
AsVectors(batch) ==
    [shape |-> <<Len(batch), 4>>,
     val   |-> [t \in Indices(<<Len(batch), 4>>) |-> batch[t[1] + 1][t[2] + 1] * Unit]]

\* arrays of other shapes, filled with distinct numbers
OtherShapes ==
    { <<4>>, <<3, 3>>, <<2, 2>>, <<1, 1, 3, 3>>, <<1, 1, 4>> }
      \cup { <<n, 2, 2>> : n \in 1..MaxBatch }
      \cup { <<n, 4, 4>> : n \in 1..MaxBatch }
      \cup { <<n, 3>> : n \in 1..MaxBatch }
      \cup { <<n, 1, 3, 3>> : n \in 2..MaxBatch }

RECURSIVE Position(_)
Position(t) == IF Len(t) = 0 THEN 0 ELSE Head(t) + 4 * Position(Tail(t))

Filled(shape) ==
    [shape |-> shape, val |-> [t \in Indices(shape) |-> (100 + Position(t)) * Unit]]

\* the arguments K tried, each with the batch it was built from (<<>> if none)
KInputs ==
    { [K |-> AsMatrices(b), batch |-> b] : b \in Batches }
      \cup { [K |-> AsVectors(b), batch |-> b] : b \in Batches }
      \cup { [K |-> Filled(sh), batch |-> <<>>] : sh \in OtherShapes }

\* proj = projection_from_intrinsics(K, (600, 800), 0.01, 10, flip_y, z_sign)
CallProjection(in, flip_y, z_sign) ==
    /\ call' = [K |-> in.K, batch |-> in.batch, flip_y |-> flip_y, z_sign |-> z_sign,
                result |-> projection_from_intrinsics(in.K, <<600, 800>>, Unit \div 100,
                                                      10 * Unit, flip_y, z_sign)]
    /\ UNCHANGED <<cam, file, op, err, saved, steps>>

NextProj == \E in \in KInputs, flip_y \in BOOLEAN, z_sign \in {-1, 1} :
                CallProjection(in, flip_y, z_sign)

SpecProj == Init /\ [][NextProj]_vars

\* ================================================================ claims
\* the four persisted attributes of camera a equal those of camera b
SameView(a, b) ==
    /\ as_matrix(a.rot) = as_matrix(b.rot)
    /\ a.look_at = b.look_at
    /\ a.radius = b.radius
    /\ a.fovy = b.fovy

\* the attributes __init__ takes as parameters
ParamFields ==
    {"image_width", "image_height", "radius_default", "fovy_default", "znear", "zfar",
     "scale", "convention", "projection", "save_path"}

SameConstruction(a, b) == \A k \in ParamFields : a[k] = b[k]

\* camera d differs from camera c in the attributes F at most
OnlyChanged(c, d, F) ==
    /\ DOMAIN d = DOMAIN c
    /\ \A k \in DOMAIN c \ F : d[k] = c[k]

\* C1: save() followed by the construction of a fresh camera with the same
\* construction parameters (its __init__ runs reset() then load()) gives a
\* camera whose rotation, look_at, radius and fovy are those the saving
\* camera held when save() ran.
C1_SaveLoadRoundTrip ==
    (op = "construct" /\ err = "ok" /\ file # NoFile /\ saved # NoCam
        /\ SameConstruction(cam, saved))
    => SameView(cam, saved)

\* a fresh camera restored a turned and panned view
C1_Witness ==
    /\ op = "construct" /\ err = "ok" /\ file # NoFile /\ saved # NoCam
    /\ SameConstruction(cam, saved)
    /\ cam.rot # QIdentity
    /\ cam.look_at # <<0, 0, 0>>

\* C2: on a constructed camera the zoom method scale(delta) can be called
\* and multiplies radius by 1.1 ** (-delta).
C2_ZoomScalesRadius ==
    [][\A delta \in ZoomInputs :
          Zoom(delta) => (err' = "ok" /\ cam'.radius = scale(cam, delta).radius)]_vars

\* the matrix the documentation states for intrinsics k = <<fx, fy, cx, cy>>
\* (pixels), image size h x w, planes near and far
StatedMatrix(k, h, w, near, far, flip_y, z_sign) ==
    << << (2 * k[1] * Unit) \div w, 0, ((w - 2 * k[3]) * Unit) \div w, 0 >>,
       << 0, (IF flip_y THEN -1 ELSE 1) * ((2 * k[2] * Unit) \div h),
             ((h - 2 * k[4]) * Unit) \div h, 0 >>,
       << 0, 0, (z_sign * (far + near) * Unit) \div (far - near),
             (-2 * far * near) \div (far - near) >>,
       << 0, 0, z_sign * Unit, 0 >> >>

\* C3: for a batch of N >= 1 vectors (fx, fy, cx, cy) the function returns
\* N matrices, the i-th built from the i-th vector by the stated formula, and
\* the same result as for the batch of N 3x3 matrices with these intrinsics.
C3_VectorBatchAccepted ==
    (call # NoCall /\ call.batch # <<>> /\ call.K = AsVectors(call.batch))
    => /\ call.result.err = "ok"
       /\ call.result.shape = <<Len(call.batch), 4, 4>>
       /\ \A b \in 0..(Len(call.batch) - 1) :
             call.result.mat[b] = StatedMatrix(call.batch[b + 1], 600, 800, Unit \div 100,
                                               10 * Unit, call.flip_y, call.z_sign)
       /\ call.result = projection_from_intrinsics(AsMatrices(call.batch), <<600, 800>>,
                              Unit \div 100, 10 * Unit, call.flip_y, call.z_sign)

\* the shapes (N, 3, 3) and (N, 4)
WellFormed(shape) ==
    \/ Len(shape) = 3 /\ shape[2] = 3 /\ shape[3] = 3
    \/ Len(shape) = 2 /\ shape[2] = 4

\* C4: a K of any shape other than (N, 3, 3) or (N, 4) makes the function
\* raise ValueError; it never returns a result for such a K.
C4_MalformedShapeRaises ==
    (call # NoCall /\ ~WellFormed(call.K.shape)) => call.result.err = "ValueError"

\* C5: no camera with an unrecognized projection kind is ever constructed,
\* and projection_matrix of a constructed camera is always a 4x4 matrix.
C5_ProjectionKindChecked ==
    cam # NoCam => /\ cam.projection \in {"perspective", "orthogonal"}
                   /\ projection_matrix(cam) # None
                   /\ Len(projection_matrix(cam)) = 4

C7_ResetRestoresDefaults ==
    (op = "reset" /\ err = "ok")
    => /\ as_matrix(cam.rot) = as_matrix(QIdentity)
       /\ cam.look_at = <<0, 0, 0>>
       /\ cam.radius = cam.radius_default
       /\ cam.fovy = cam.fovy_default
       /\ cam.convention = "opengl"
            => pose(cam) = << <<Unit, 0, 0, 0>>, <<0, Unit, 0, 0>>,
                              <<0, 0, Unit, cam.radius_default>>, <<0, 0, 0, Unit>> >>

\* reset() ran on an OpenGL camera while the snapshot on disk, which this
\* camera had applied, holds another radius and field of view than its defaults
C7_Witness ==
    /\ op = "reset" /\ err = "ok" /\ cam.convention = "opengl"
    /\ file # NoFile
    /\ file.radius # cam.radius_default
    /\ file.fovy # cam.fovy_default

\* C8: clear() deletes the snapshot file when it exists and raises an
\* IOError-class error when it does not, leaving the camera unchanged in both
\* cases; while no file exists load() changes nothing and a newly constructed
\* camera starts at its defaults.
C8_ClearRemovesOnlyFile ==
    [][ /\ Clear => /\ cam' = cam
                    /\ file' = NoFile
                    /\ err' = IF file = NoFile THEN "FileNotFoundError" ELSE "ok"
        /\ (Load /\ file = NoFile) => cam' = cam
        /\ ((\E p \in ConstructInputs : Construct(p[1], p[2], p[3], p[4]))
               /\ file = NoFile /\ err' = "ok")
             => /\ cam'.rot = QIdentity
                /\ cam'.look_at = <<0, 0, 0>>
                /\ cam'.radius = cam'.radius_default
                /\ cam'.fovy = cam'.fovy_default ]_vars

\* a turned camera called load() after a snapshot was saved and cleared
C8_Witness ==
    /\ op = "load" /\ file = NoFile /\ saved # NoCam
    /\ cam.rot # QIdentity

\* C9: the camera position, the translation column of pose (OpenGL), lies at
\* distance radius from look_at.
C9_CameraOrbitsLookAt ==
    (cam # NoCam /\ cam.convention = "opengl")
    => LET p == pose(cam)
           d(i) == p[i][4] - cam.look_at[i]
       IN  d(1) * d(1) + d(2) * d(2) + d(3) * d(3) = cam.radius * cam.radius

\* C10: orbit changes only the rotation (orbit(0, 0) nothing), pan only
\* look_at, zoom at most radius; orbit, pan, zoom, save, load and clear leave
\* the construction parameters and the signs alone; z_sign is always the one
\* the convention determines.
C10_FrameConditions ==
    /\ [](cam # NoCam => /\ cam.z_sign = (IF cam.convention = "opencv" THEN 1 ELSE -1)
                         /\ cam.y_sign = cam.z_sign)
    /\ [][ /\ \A d \in OrbitInputs : Orbit(d[1], d[2]) => OnlyChanged(cam, cam', {"rot"})
           /\ Orbit(0, 0) => cam' = cam
           /\ \A d \in PanInputs : Pan(d[1], d[2], d[3]) => OnlyChanged(cam, cam', {"look_at"})
           /\ \A delta \in ZoomInputs : Zoom(delta) => OnlyChanged(cam, cam', {"radius"})
           /\ (Save \/ Load \/ Clear)
                => OnlyChanged(cam, cam', {"rot", "look_at", "radius", "fovy"}) ]_vars

\* a turned OpenCV camera was panned
C10_Witness ==
    /\ cam # NoCam /\ op = "pan" /\ cam.convention = "opencv"
    /\ cam.rot # QIdentity
    /\ cam.look_at # <<0, 0, 0>>

====
